---- MODULE Spec2Model ----
(***************************************************************************)
(* Model of work-wave's BulkInsertMonitor (src/src/bulkInsertMonitor.ts):  *)
(* the edit-event handler, the per-document review windows, the payload    *)
(* cache and the summary panel, with the wall clock as an environment      *)
(* variable.  Texts are sequences of characters.                           *)
(***************************************************************************)
EXTENDS Integers, Sequences, FiniteSets, TLC

VARIABLES
    now,                    \* Date.now(), epoch milliseconds
    pending,                \* Map<string, PendingReview>, keyed by uri
    lastBulkInsert,         \* payload cache slot, or undefined
    lastBulkInsertSummary,  \* summary slot, or undefined
    summaryPanel,           \* the open webview panel, or undefined
    notifications,          \* messages shown by the most recent handler call
    lastCall,               \* history: the most recent operation and its inputs
    bulkLog,                \* history: per document, the latest bulk insertion
    lastBulkCall,           \* history: the latest bulk insertion over all documents
    probe,                  \* estimator harness: inputs and result
    bot,                    \* CodingBuddyBot: the fields of the one instance
    timers,                 \* event loop: the setTimeout tasks outstanding
    botShown,               \* messages shown by the most recent bot call
    botCall,                \* history: the most recent bot operation
    starting,               \* startSession() calls suspended at their await
    build,                  \* BuildSummaryPanel, its webview and its evaluations
    buildCall,              \* history: the most recent summary panel step
    detector,               \* EmotionDetector: the fields of the one instance
    intervals,              \* event loop: the setInterval timers outstanding
    detectStarts,           \* startDetection() calls suspended at their awaits
    cameraCall              \* history: the most recent camera step

vars == <<now, pending, lastBulkInsert, lastBulkInsertSummary, summaryPanel,
          notifications, lastCall, bulkLog, lastBulkCall, probe,
          bot, timers, botShown, botCall,
          starting, build, buildCall,
          detector, intervals, detectStarts, cameraCall>>

botVars == <<bot, timers, botShown, botCall>>

buildVars == <<build, buildCall>>

cameraVars == <<detector, intervals, detectStarts, cameraCall>>

\* what the monitor and the badge clock never touch
hostVars == <<starting, buildVars, cameraVars>>

monitorVars == <<pending, lastBulkInsert, lastBulkInsertSummary, summaryPanel>>

(***************************************************************************)
(* Bounds of the model                                                     *)
(***************************************************************************)
MaxNow == 2000
MaxProbeChars == 1400
MaxProbeLines == 10

(***************************************************************************)
(* Program constants                                                       *)
(***************************************************************************)
LARGE_CHARS == 300
LARGE_LINES == 8
TYPING_MAX_CHARS == 32
perCharMs == 15
perLineMs == 150
ClampLowMs == 1500
ClampHighMs == 20000
PreviewCap == 4000

\* an absent object (undefined), and an absent uri or event
undefined == [undefined |-> TRUE]
noUri == "undefined"
noEvent == "undefined"

(***************************************************************************)
(* Characters and texts                                                    *)
(***************************************************************************)
LF == "\n"
CR == "\r"
SP == " "
Whitespace == {SP, LF, CR, "\t"}

Rep(c, n) == [i \in 1..n |-> c]
RepSeq(s, n) == [i \in 1..(n * Len(s)) |-> s[((i - 1) % Len(s)) + 1]]

Max(a, b) == IF a >= b THEN a ELSE b
Min(a, b) == IF a <= b THEN a ELSE b

\* String.prototype.trim: drop leading and trailing whitespace
Trim(s) ==
    LET keep == {i \in DOMAIN s : s[i] \notin Whitespace}
    IN  IF keep = {} THEN <<>>
        ELSE LET first == CHOOSE i \in keep : \A j \in keep : i <= j
                 last  == CHOOSE i \in keep : \A j \in keep : i >= j
             IN  SubSeq(s, first, last)

\* String.prototype.split(/\r?\n/): the pieces between line terminators,
\* a terminator being LF together with one CR directly before it
SplitLines(s) ==
    LET lfs == {i \in DOMAIN s : s[i] = LF}
        n == Cardinality(lfs)
        nth(k) == CHOOSE i \in lfs : Cardinality({j \in lfs : j < i}) = k - 1
        start(k) == IF k = 1 THEN 1 ELSE nth(k - 1) + 1
        stop(k) == IF k = n + 1 THEN Len(s)
                   ELSE IF nth(k) - 1 >= start(k) /\ s[nth(k) - 1] = CR
                        THEN nth(k) - 2
                        ELSE nth(k) - 1
    IN  [k \in 1..(n + 1) |-> SubSeq(s, start(k), stop(k))]

\* String.prototype.substring(0, n)
Substring0(s, n) == SubSeq(s, 1, Min(n, Len(s)))

\* Array.prototype.join(sep)
RECURSIVE Join(_, _)
Join(parts, sep) ==
    IF Len(parts) = 0 THEN <<>>
    ELSE IF Len(parts) = 1 THEN parts[1]
    ELSE parts[1] \o sep \o Join(Tail(parts), sep)

(***************************************************************************)
(* Documents: uri.toString() keys and their languageId                     *)
(***************************************************************************)
Docs == {"file:///a.ts", "file:///B.java"}
languageId == [d \in Docs |-> IF d = "file:///B.java" THEN "java" ELSE "typescript"]
LanguageIds == {"typescript", "java", "Java"}

\* String.prototype.toLowerCase on the language identifiers
toLowerCase(id) == IF id = "Java" THEN "java" ELSE id

(***************************************************************************)
(* Edit events: e.contentChanges, each change with its inserted text and   *)
(* the length of the range it replaces                                     *)
(***************************************************************************)
Change(text, rangeLength) == [text |-> text, rangeLength |-> rangeLength]

Hello == <<"h", "e", "l", "l", "o">>
Blank == <<SP, CR, LF>>
SevenLines == RepSeq(<<"a", LF>>, 7)
TenLines == RepSeq(Rep("c", 39) \o <<LF>>, 10)

EventIds == {"delete", "type5", "type32", "blank", "multi4", "paste33",
             "paste299", "paste300", "lines7", "lines8", "paste400", "none"}

\* insertions as long as the preview of the summary panel, and one longer
LongEventIds == {"paste4000", "paste4001"}

AllEventIds == EventIds \cup LongEventIds

contentChanges ==
    [e \in AllEventIds |->
        CASE e = "delete"   -> <<Change(<<>>, 5)>>
          [] e = "type5"    -> <<Change(Hello, 0)>>
          [] e = "type32"   -> <<Change(Rep("t", 30), 3), Change(<<>>, 1),
                                 Change(<<SP, "t">>, 0)>>
          [] e = "blank"    -> <<Change(Blank, 0)>>
          [] e = "multi4"   -> <<Change(<<"h">>, 0), Change(<<"h">>, 0),
                                 Change(<<"h">>, 0), Change(<<"h">>, 0)>>
          [] e = "paste33"  -> <<Change(Rep("p", 33), 0)>>
          [] e = "paste299" -> <<Change(Rep("x", 299), 400)>>
          [] e = "paste300" -> <<Change(Rep("x", 299), 400), Change(<<>>, 7),
                                 Change(<<"y">>, 0)>>
          [] e = "lines7"   -> <<Change(SevenLines, 0)>>
          [] e = "lines8"   -> <<Change(SevenLines, 0), Change(Blank, 2)>>
          [] e = "paste400" -> <<Change(TenLines, 0)>>
          [] e = "none"     -> <<>>
          [] e = "paste4000" -> <<Change(Rep("x", 4000), 0)>>
          [] e = "paste4001" -> <<Change(Rep("x", 4000) \o <<"y">>, 0)>>]

(***************************************************************************)
(* handleTextChange, lines 39-49: aggregate the insertion size             *)
(***************************************************************************)
\* the loop's guard: c.text && c.text.length > 0
IsInsertion(c) == Len(c.text) > 0

RECURSIVE insertedChars(_)
insertedChars(changes) ==
    IF changes = <<>> THEN 0
    ELSE (IF IsInsertion(Head(changes)) THEN Len(Head(changes).text) ELSE 0)
         + insertedChars(Tail(changes))

RECURSIVE insertedLines(_)
insertedLines(changes) ==
    IF changes = <<>> THEN 0
    ELSE (IF IsInsertion(Head(changes))
          THEN Max(0, Len(SplitLines(Head(changes).text)) - 1) ELSE 0)
         + insertedLines(Tail(changes))

RECURSIVE insertedParts(_)
insertedParts(changes) ==
    IF changes = <<>> THEN <<>>
    ELSE (IF IsInsertion(Head(changes)) THEN <<Head(changes).text>> ELSE <<>>)
         \o insertedParts(Tail(changes))

\* insertedParts.join("\n")
PayloadText(changes) == Join(insertedParts(changes), <<LF>>)

\* mutant: any inserted text counts, blank or not
hasNonWhitespaceUntrimmed(changes) ==
    \E i \in DOMAIN changes : Len(changes[i].text) > 0

\* e.contentChanges.some((c) => (c.text || "").trim().length > 0)
hasNonWhitespace(changes) ==
    \E i \in DOMAIN changes : Len(Trim(changes[i].text)) > 0

\* the aggregation of each event, evaluated once
Aggregate ==
    [e \in AllEventIds |->
        [insertedChars    |-> insertedChars(contentChanges[e]),
         insertedLines    |-> insertedLines(contentChanges[e]),
         text             |-> PayloadText(contentChanges[e]),
         length           |-> Len(contentChanges[e]),
         hasNonWhitespace |-> hasNonWhitespace(contentChanges[e])]]

(***************************************************************************)
(* estimateReviewTimeMs                                                    *)
(***************************************************************************)
\* mutant: the clamp applied before the language factor
estimateReviewTimeMsClampFirst(chars, lines, langId) ==
    LET base == chars * perCharMs + Max(0, lines) * perLineMs
        clamped == Max(ClampLowMs, Min(base, ClampHighMs))
    IN  IF toLowerCase(langId) = "java" THEN (clamped * 12) \div 10
        ELSE clamped

\* ms *= langFactor: the double product chars*15 + lines*150 times 1.2 is
\* exact for every multiple of 15 below the clamp, so it is ms * 12 / 10
estimateReviewTimeMs(chars, lines, langId) ==
    LET base == chars * perCharMs + Max(0, lines) * perLineMs
        id == toLowerCase(langId)
        scaled == IF id = "java" THEN (base * 12) \div 10 ELSE base
    IN  Max(ClampLowMs, Min(scaled, ClampHighMs))

\* mutant: the thresholds taken as strict
IsLargeInsertionStrict(chars, lines) ==
    chars > LARGE_CHARS \/ lines > LARGE_LINES

\* the branch at lines 52-55
IsLargeInsertion(chars, lines) == chars >= LARGE_CHARS \/ lines >= LARGE_LINES

(***************************************************************************)
(* The pending table: Map<string, PendingReview>                           *)
(***************************************************************************)
MapHas(m, k) == k \in DOMAIN m

MapGet(m, k) == IF k \in DOMAIN m THEN m[k] ELSE undefined

MapSet(m, k, v) == [x \in (DOMAIN m) \cup {k} |-> IF x = k THEN v ELSE m[x]]
\* mutant: delete empties the table
MapClear(m, k) == <<>>

MapDelete(m, k) == [x \in (DOMAIN m) \ {k} |-> m[x]]

\* mutant: an open window is extended, never shortened
NewPendingReviewExtended(uriKey, chars, lines) ==
    LET expectedMs == estimateReviewTimeMs(chars, lines, languageId[uriKey])
        deadline == IF MapHas(pending, uriKey)
                    THEN Max(pending[uriKey].deadline, now + expectedMs)
                    ELSE now + expectedMs
    IN  [deadline   |-> deadline,
         expectedMs |-> expectedMs,
         chars      |-> chars,
         lines      |-> lines]

\* the PendingReview stored at lines 56-67
NewPendingReview(uriKey, chars, lines) ==
    LET expectedMs == estimateReviewTimeMs(chars, lines, languageId[uriKey])
    IN  [deadline   |-> now + expectedMs,
         expectedMs |-> expectedMs,
         chars      |-> chars,
         lines      |-> lines]

\* mutant: the slot is filled once and kept
NewBulkInsertFirstWins(uriKey, agg) ==
    IF lastBulkInsert # undefined THEN lastBulkInsert
    ELSE [text      |-> agg.text,
          timestamp |-> now,
          uri       |-> uriKey,
          chars     |-> agg.insertedChars,
          lines     |-> agg.insertedLines]

\* the payload stored at lines 70-76
NewBulkInsert(uriKey, agg) ==
    [text      |-> agg.text,
     timestamp |-> now,
     uri       |-> uriKey,
     chars     |-> agg.insertedChars,
     lines     |-> agg.insertedLines]

\* Math.round(x / 1000) for x >= 0
RoundSeconds(ms) == (ms + 500) \div 1000

\* (x / 1000).toFixed(1), in tenths of a second; exact wherever x is not
\* half-way between two tenths (x % 100 # 50), as are all times met here
ToFixed1(ms) == (ms + 50) \div 100

\* the information message of lines 79-82
LargeInsertionMessage(agg, expectedMs) ==
    [kind  |-> "large-insertion",
     lines |-> agg.insertedLines,
     chars |-> agg.insertedChars,
     secs  |-> Max(1, RoundSeconds(expectedMs))]

\* mutant: the warning reports the time left instead of the time elapsed
EarlyEditMessageRemaining(rec) ==
    LET elapsed == Max(0, rec.deadline - now)
    IN  [kind       |-> "early-edit",
         elapsed    |-> elapsed,
         expectedMs |-> rec.expectedMs,
         elapsedS   |-> ToFixed1(elapsed),
         expectedS  |-> ToFixed1(rec.expectedMs)]

\* the warning of lines 106-114
EarlyEditMessage(rec) ==
    LET elapsed == Max(0, rec.expectedMs - (rec.deadline - now))
    IN  [kind       |-> "early-edit",
         elapsed    |-> elapsed,
         expectedMs |-> rec.expectedMs,
         elapsedS   |-> ToFixed1(elapsed),
         expectedS  |-> ToFixed1(rec.expectedMs)]

\* mutant: a text as long as the preview counts as truncated
openSummaryPanelTruncatedAtCap(codeText, uriKey) ==
    LET preview == Substring0(codeText, PreviewCap)
        owner == IF summaryPanel # undefined THEN summaryPanel.uri ELSE uriKey
    IN  [uri |-> owner, preview |-> preview,
         truncated |-> Len(codeText) >= PreviewCap]

\* openSummaryPanel: reuse the open panel (its message handler keeps the uri
\* it was created with) or create one, then set the preview.  The catch
\* branch, taken when the editor fails to create the panel, is left out.
openSummaryPanel(codeText, uriKey) ==
    LET preview == Substring0(codeText, PreviewCap)
        owner == IF summaryPanel # undefined THEN summaryPanel.uri ELSE uriKey
    IN  [uri       |-> owner,
         preview   |-> preview,
         truncated |-> Len(codeText) > Len(preview)]

\* mutant: the number of changes in the event is not looked at
isTypingAnyCount(agg) ==
    /\ agg.insertedChars > 0
    /\ agg.insertedChars <= TYPING_MAX_CHARS

\* lines 97-105
isTyping(agg) ==
    /\ agg.insertedChars > 0
    /\ agg.insertedChars <= TYPING_MAX_CHARS
    /\ agg.length <= 3

\* mutant: the entry outlives the warning
PendingAfterEditKeepWarned(uriKey, agg) ==
    LET rec == MapGet(pending, uriKey)
    IN  IF MapHas(pending, uriKey) /\ now >= rec.deadline
        THEN MapDelete(pending, uriKey)
        ELSE pending

\* mutant: an expired entry is left in the table
PendingAfterEditKeepExpired(uriKey, agg) ==
    LET rec == MapGet(pending, uriKey)
    IN  IF MapHas(pending, uriKey) /\ now < rec.deadline
           /\ isTyping(agg) /\ agg.hasNonWhitespace
        THEN MapDelete(pending, uriKey)
        ELSE pending

\* the pending table after a change that is not a large insertion, lines 93-123
PendingAfterEdit(uriKey, agg) ==
    LET rec == MapGet(pending, uriKey)
    IN  IF MapHas(pending, uriKey) /\ now < rec.deadline
        THEN IF isTyping(agg) /\ agg.hasNonWhitespace
             THEN MapDelete(pending, uriKey)
             ELSE pending
        ELSE IF MapHas(pending, uriKey) /\ now >= rec.deadline
             THEN MapDelete(pending, uriKey)
             ELSE pending

\* the messages shown by a change that is not a large insertion
MessagesAfterEdit(uriKey, agg) ==
    LET rec == MapGet(pending, uriKey)
    IN  IF MapHas(pending, uriKey) /\ now < rec.deadline
           /\ isTyping(agg) /\ agg.hasNonWhitespace
        THEN <<EarlyEditMessage(rec)>>
        ELSE <<>>

\* mutant: the window still counts as open at the deadline itself
isInReviewWindowInclusive(uri) ==
    IF uri = noUri THEN FALSE
    ELSE LET rec == MapGet(pending, uri)
         IN  MapHas(pending, uri) /\ now <= rec.deadline

\* isInReviewWindow(uri)
isInReviewWindow(uri) ==
    IF uri = noUri THEN FALSE
    ELSE LET rec == MapGet(pending, uri)
         IN  MapHas(pending, uri) /\ now < rec.deadline

\* mutant: the query drops the entry it finds expired
PendingAfterQueryPruning(uri) ==
    IF uri # noUri /\ MapHas(pending, uri) /\ now >= pending[uri].deadline
    THEN MapDelete(pending, uri)
    ELSE pending

\* the table isInReviewWindow leaves behind: it only reads
PendingAfterQuery(uri) == pending

getLastBulkInsertText == IF lastBulkInsert = undefined THEN undefined
                         ELSE lastBulkInsert.text

getLastBulkInsertMeta ==
    IF lastBulkInsert = undefined THEN undefined
    ELSE [timestamp |-> lastBulkInsert.timestamp,
          uri       |-> lastBulkInsert.uri,
          chars     |-> lastBulkInsert.chars,
          lines     |-> lastBulkInsert.lines]

getLastBulkInsertSummaryText ==
    IF lastBulkInsertSummary = undefined THEN undefined
    ELSE lastBulkInsertSummary.summaryText

(***************************************************************************)
(* Summaries typed into the panel                                          *)
(***************************************************************************)
SummaryTexts == {<<SP, SP>>, <<SP, "o", "k", SP>>, <<"n", "o">>}

(***************************************************************************)
(* CodingBuddyBot: the session and its badge clock.  Minutes are held in   *)
(* tenths of a minute (0.5 min is 5, 60 min is 600).  The bot's operations *)
(* work on a process state S: the bot's fields, the event loop's timer     *)
(* tasks and the messages shown so far by the running call.  The counters  *)
(* of the emotion callback, which the badge clock never reads, are left    *)
(* out.                                                                    *)
(***************************************************************************)
\* Date.now() when the run begins: a wall-clock time, never 0
BotEpoch == 1000000
\* how long after BotEpoch the clock of the bot's runs may advance
BotHorizon == 185000

\* this.badgeTimeout holding no handle
NoTimeout == 0
\* private badgeIntervalMinutes = 60
DefaultBadgeIntervalMinutes == 600
\* private readonly __TEST_BADGE_INTERVAL__ = false
TEST_BADGE_INTERVAL == FALSE
\* the override of startBadgeClock, 0.1 min
TestBadgeIntervalMinutes == 1
\* if (this.badgesThisSession.length > 200) this.badgesThisSession.length = 200
BadgeCap == 200

\* the arguments of setBadgeIntervalMinutes: -1, 0, 0.5 and 1 minute
BadgeMinutes == {-10, 0, 5, 10}

Process(b, t, m) == [bot |-> b, timers |-> t, shown |-> m]

\* vscode.window.showInformationMessage(...)
Show(S, msg) == [S EXCEPT !.shown = Append(@, msg)]

\* this.badgeIntervalMinutes * 60 * 1000
intervalMs(b) == (b.badgeIntervalMinutes * 60 * 1000) \div 10

\* the handle of a new timer task: distinct from every outstanding task's
\* and from the handle the bot still holds
NewHandle(S) ==
    LET used == {t.id : t \in S.timers} \cup {S.bot.badgeTimeout}
    IN  CHOOSE i \in 1..(Cardinality(used) + 1) :
            i \notin used /\ \A j \in 1..(i - 1) : j \in used

\* clearTimeout(handle)
clearTimeout(tasks, handle) == {t \in tasks : t.id # handle}

\* mutant: the flag is cleared and the task left in the event loop
stopBadgeClockKeepTask(S) ==
    [S EXCEPT !.bot.badgeTimeout = NoTimeout,
              !.bot.badgeClockRunning = FALSE]

\* stopBadgeClock()
stopBadgeClock(S) ==
    LET S1 == IF S.bot.badgeTimeout # NoTimeout
              THEN [S EXCEPT !.timers = clearTimeout(@, S.bot.badgeTimeout),
                             !.bot.badgeTimeout = NoTimeout]
              ELSE S
    IN  [S1 EXCEPT !.bot.badgeClockRunning = FALSE]

\* mutant: the next badge is due one interval after the present moment
scheduleNextBadgeDrifting(S) ==
    IF ~S.bot.isActive THEN stopBadgeClock(S)
    ELSE IF S.bot.sessionStartTime = 0 THEN stopBadgeClock(S)
    ELSE LET elapsed == now - S.bot.sessionStartTime
             k       == (elapsed \div intervalMs(S.bot)) + 1
             nextAt  == now + intervalMs(S.bot)
             delay   == Max(0, nextAt - now)
             id      == NewHandle(S)
         IN  [S EXCEPT !.timers = @ \cup {[id |-> id, k |-> k,
                                           nextAt |-> nextAt,
                                           dueAt |-> now + delay]},
                       !.bot.badgeTimeout = id]

\* scheduleNextBadge(): the task set by setTimeout carries the k of its
\* closure, the target nextAt and the earliest time it can run
scheduleNextBadge(S) ==
    IF ~S.bot.isActive THEN stopBadgeClock(S)
    ELSE IF S.bot.sessionStartTime = 0 THEN stopBadgeClock(S)
    ELSE LET elapsed == now - S.bot.sessionStartTime
             k       == (elapsed \div intervalMs(S.bot)) + 1
             nextAt  == S.bot.sessionStartTime + k * intervalMs(S.bot)
             delay   == Max(0, nextAt - now)
             id      == NewHandle(S)
         IN  [S EXCEPT !.timers = @ \cup {[id |-> id, k |-> k,
                                           nextAt |-> nextAt,
                                           dueAt |-> now + delay]},
                       !.bot.badgeTimeout = id]

\* mutant: a running clock is started again
startBadgeClockUnguarded(S) ==
    IF ~S.bot.isActive THEN S
    ELSE IF S.bot.sessionStartTime = 0 THEN S
    ELSE scheduleNextBadge(
             [S EXCEPT !.bot.badgeClockRunning = TRUE,
                       !.bot.badgeIntervalMinutes =
                           IF TEST_BADGE_INTERVAL
                           THEN TestBadgeIntervalMinutes ELSE @])

\* startBadgeClock()
startBadgeClock(S) ==
    IF ~S.bot.isActive THEN S
    ELSE IF S.bot.sessionStartTime = 0 THEN S
    ELSE IF S.bot.badgeClockRunning THEN S
    ELSE scheduleNextBadge(
             [S EXCEPT !.bot.badgeClockRunning = TRUE,
                       !.bot.badgeIntervalMinutes =
                           IF TEST_BADGE_INTERVAL
                           THEN TestBadgeIntervalMinutes ELSE @])

\* mutant: the list of badges is never cut back
awardTimeBadgeUncapped(S, nth) ==
    IF ~S.bot.isActive THEN S
    ELSE LET label == [minutes |-> S.bot.badgeIntervalMinutes, nth |-> nth]
             badges == <<[label |-> label, at |-> now]>>
                           \o S.bot.badgesThisSession
         IN  Show([S EXCEPT !.bot.badgesThisSession = badges],
                  [kind |-> "badge", label |-> label])

\* awardTimeBadge(nth): the label names the interval and the ordinal
awardTimeBadge(S, nth) ==
    IF ~S.bot.isActive THEN S
    ELSE LET label == [minutes |-> S.bot.badgeIntervalMinutes, nth |-> nth]
             badges == <<[label |-> label, at |-> now]>>
                           \o S.bot.badgesThisSession
         IN  Show([S EXCEPT !.bot.badgesThisSession =
                                IF Len(badges) > BadgeCap
                                THEN SubSeq(badges, 1, BadgeCap)
                                ELSE badges],
                  [kind |-> "badge", label |-> label])

\* mutant: the callback reschedules and forgets the badge
timerCallbackNoAward(S, task) ==
    LET S0 == [S EXCEPT !.timers = @ \ {task}]
    IN  IF ~S0.bot.isActive THEN stopBadgeClock(S0)
        ELSE scheduleNextBadge(S0)

\* the callback given to setTimeout at lines 288-292, run for its task
timerCallback(S, task) ==
    LET S0 == [S EXCEPT !.timers = @ \ {task}]
    IN  IF ~S0.bot.isActive THEN stopBadgeClock(S0)
        ELSE scheduleNextBadge(awardTimeBadge(S0, task.k))

\* mutant: the new interval is stored and the clock left as it runs
setBadgeIntervalMinutesStoreOnly(S, mins) ==
    IF mins <= 0 THEN S
    ELSE [S EXCEPT !.bot.badgeIntervalMinutes = mins]

\* setBadgeIntervalMinutes(mins)
setBadgeIntervalMinutes(S, mins) ==
    IF mins <= 0 THEN S
    ELSE LET S1 == [S EXCEPT !.bot.badgeIntervalMinutes = mins]
         IN  IF S1.bot.isActive
             THEN startBadgeClock(stopBadgeClock(S1))
             ELSE S1

\* startEmotionDetection(): with the camera off, as it is whenever no
\* session is active, it returns at once and the await of startSession
\* resumes before any other task of the event loop
startEmotionDetection(S) == S

\* mutant: the badges of the previous session are carried over
startSessionKeepBadges(S) ==
    IF S.bot.isActive THEN S
    ELSE LET S1 == Show([S EXCEPT !.bot.isActive = TRUE,
                                  !.bot.sessionStartTime = now],
                        [kind |-> "session-start"])
         IN  startBadgeClock(startEmotionDetection(S1))

\* startSession()
startSession(S) ==
    IF S.bot.isActive THEN S
    ELSE LET S1 == Show([S EXCEPT !.bot.isActive = TRUE,
                                  !.bot.sessionStartTime = now,
                                  !.bot.badgesThisSession = <<>>],
                        [kind |-> "session-start"])
         IN  startBadgeClock(startEmotionDetection(S1))

\* startSession() of the variant that reads the interval from the settings
startSessionConfigured(S, mins) ==
    IF S.bot.isActive THEN S
    ELSE LET S1 == Show([S EXCEPT !.bot.isActive = TRUE,
                                  !.bot.sessionStartTime = now,
                                  !.bot.badgesThisSession = <<>>],
                        [kind |-> "session-start"])
             S2 == setBadgeIntervalMinutes(S1, mins)
         IN  startBadgeClock(startEmotionDetection(S2))

\* startSession() up to its await of startEmotionDetection()
startSessionUntilAwait(S) ==
    Show([S EXCEPT !.bot.isActive = TRUE,
                   !.bot.sessionStartTime = now,
                   !.bot.badgesThisSession = <<>>],
         [kind |-> "session-start"])

\* the same of the variant that reads the interval from the settings
startSessionConfiguredUntilAwait(S, mins) ==
    setBadgeIntervalMinutes(startSessionUntilAwait(S), mins)

\* mutant: the resumed call schedules a task whatever the clock's state
startSessionAfterAwaitUnguarded(S) ==
    scheduleNextBadge([S EXCEPT !.bot.badgeClockRunning = TRUE])

\* startSession() from its await on
startSessionAfterAwait(S) == startBadgeClock(S)

\* showSessionSummary()
showSessionSummary(S) ==
    LET sessionDuration == now - S.bot.sessionStartTime
    IN  Show(S, [kind    |-> "session-summary",
                 minutes |-> sessionDuration \div (1000 * 60),
                 badges  |-> Len(S.bot.badgesThisSession)])

\* mutant: the summary is shown whether or not a session was running
stopSessionUnguarded(S) ==
    LET S1 == stopBadgeClock(S)
    IN  showSessionSummary([S1 EXCEPT !.bot.isActive = FALSE,
                                      !.bot.isCameraActive = FALSE])

\* stopSession()
stopSession(S) ==
    IF ~S.bot.isActive THEN S
    ELSE LET S1 == stopBadgeClock(S)
         IN  showSessionSummary([S1 EXCEPT !.bot.isActive = FALSE,
                                           !.bot.isCameraActive = FALSE])

\* the bot as its constructor leaves it
NewBot ==
    [isActive             |-> FALSE,
     isCameraActive       |-> FALSE,
     sessionStartTime     |-> 0,
     badgeTimeout         |-> NoTimeout,
     badgeClockRunning    |-> FALSE,
     badgeIntervalMinutes |-> DefaultBadgeIntervalMinutes,
     badgesThisSession    |-> <<>>]

\* a bot call with its argument, the ordinal of the task it ran, whether
\* that task ran a whole interval or more after its target, what the bot
\* was like when the call was made, and whether the call before it was the
\* stopSession that ended a session, and the number of timer callbacks
\* run since the latest session started
BotCall(op, mins, task) ==
    [op         |-> op,
     mins       |-> mins,
     k          |-> task.k,
     overdue    |-> task.k > 0 /\ now >= task.nextAt + intervalMs(bot),
     wasActive  |-> bot.isActive,
     wasRunning |-> bot.badgeClockRunning,
     hadTask    |-> timers # {},
     afterStop  |-> botCall.op = "stopSession" /\ botCall.wasActive,
     ticks      |-> IF op = "timer" THEN botCall.ticks + 1
                    ELSE IF /\ op \in {"startSession", "startSessionConfigured"}
                            /\ ~bot.isActive
                         THEN 0
                         ELSE botCall.ticks]

NoTask == [id |-> 0, k |-> 0, nextAt |-> 0, dueAt |-> 0]

InitBot ==
    /\ bot = NewBot
    /\ timers = {}
    /\ botShown = <<>>
    /\ botCall = [op |-> "new", mins |-> 0, k |-> 0, overdue |-> FALSE,
                  wasActive |-> FALSE, wasRunning |-> FALSE, hadTask |-> FALSE,
                  afterStop |-> FALSE, ticks |-> 0]

(***************************************************************************)
(* EmotionDetector (src/src/emotionDetector.ts): the detection switch and  *)
(* its interval timer.  A camera call works on the detector's fields, the  *)
(* interval timers outstanding and the messages it has shown.              *)
(***************************************************************************)
MaxDetectStarts == 2
MaxIntervals == 3

NoInterval == 0

Camera(d, ts, m) == [detector |-> d, intervals |-> ts, shown |-> m]

\* the detector as its constructor leaves it
NewDetector ==
    [isDetecting       |-> FALSE,
     detectionInterval |-> NoInterval,
     callback          |-> FALSE,
     webcam            |-> FALSE]

\* the handle setInterval returns: one no outstanding timer has
NewIntervalHandle(C) ==
    CHOOSE h \in 1..(Cardinality(C.intervals) + 1) : h \notin C.intervals

\* startDetection(callback) up to its first await; the second component
\* tells whether the call is suspended there
startDetectionUntilAwait(C) ==
    IF C.detector.isDetecting THEN <<C, FALSE>>
    ELSE <<[C EXCEPT !.detector.callback = TRUE,
                     !.detector.isDetecting = TRUE], TRUE>>

\* startRealDetection()
startRealDetection(C) ==
    LET h == NewIntervalHandle(C)
    IN  [C EXCEPT !.intervals = @ \cup {h},
                  !.detector.detectionInterval = h]

\* startDetection(callback) from its awaits on, the webcam found working
startDetectionAfterAwait(C) ==
    LET C1 == [C EXCEPT !.detector.webcam = TRUE]
        C2 == startRealDetection(C1)
    IN  [C2 EXCEPT !.shown = Append(@, [kind |-> "detection-active"])]

\* startDetection(callback) from its awaits on, one of them throwing
startDetectionThrows(C) ==
    [C EXCEPT !.shown = Append(@, [kind |-> "detection-error"]),
              !.detector.isDetecting = FALSE]

\* stopDetection()
stopDetection(C) ==
    IF ~C.detector.isDetecting THEN C
    ELSE [detector |-> [isDetecting       |-> FALSE,
                        detectionInterval |-> NoInterval,
                        callback          |-> FALSE,
                        webcam            |-> FALSE],
          intervals |-> IF C.detector.detectionInterval # NoInterval
                        THEN C.intervals \ {C.detector.detectionInterval}
                        ELSE C.intervals,
          shown |-> Append(C.shown, [kind |-> "camera-deactivated"])]

CameraCall(op) ==
    [op |-> op, wasDetecting |-> detector.isDetecting,
     wasCameraActive |-> bot.isCameraActive]

InitCamera ==
    /\ detector = NewDetector
    /\ intervals = {}
    /\ detectStarts = 0
    /\ cameraCall = [op |-> "new", wasDetecting |-> FALSE,
                     wasCameraActive |-> FALSE]

(***************************************************************************)
(* BuildSummaryPanel (src/unnamed/part_005) and the page it shows          *)
(* (src/unnamed/part_006, or the fallback page of part_005).  A message    *)
(* posted to the webview is handled by the page at once.                   *)
(***************************************************************************)
MaxPanels == 2
MaxSubmissions == 3

NoPanel == 0
NoView == [none |-> TRUE]

\* what the evaluator answers, and the message of the error it throws
EvaluatorTexts == {"Verdict: Accurate", "Verdict: Partially Accurate",
                   "Verdict: Inaccurate", "Looks fine"}
EvaluatorErrors == {"quota exceeded"}
Outcomes == [ok : {TRUE}, text : EvaluatorTexts]
                \cup [ok : {FALSE}, text : EvaluatorErrors]

\* `Review failed: ${errorMessage}`
ReviewFailed(errorMessage) ==
    CASE errorMessage = "quota exceeded" -> "Review failed: quota exceeded"

\* /Verdict:\s*(Accurate|Partially\s+Accurate|Inaccurate)/i on a result text
verdictOf(text) ==
    CASE text = "Verdict: Accurate"           -> "accurate"
      [] text = "Verdict: Partially Accurate" -> "partially accurate"
      [] text = "Verdict: Inaccurate"         -> "inaccurate"
      [] OTHER                                -> "none"

\* the page as it is loaded: the script of part_006, or the fallback page
NewView(fallback) ==
    [fallback       |-> fallback,
     submitDisabled |-> FALSE,
     overlay        |-> FALSE,
     resultShown    |-> FALSE,
     retryShown     |-> FALSE,
     closeShown     |-> FALSE]

\* handleReviewResult({text, ok}), and the fallback page's listener
handleReviewResult(v, text, ok) ==
    IF v.fallback
    THEN [v EXCEPT !.resultShown = TRUE, !.closeShown = TRUE]
    ELSE LET verdict == verdictOf(text)
         IN  [v EXCEPT !.overlay = FALSE,
                       !.resultShown = TRUE,
                       !.retryShown = CASE verdict = "none" -> @
                                        [] verdict = "accurate" -> FALSE
                                        [] OTHER -> TRUE,
                       !.closeShown = TRUE,
                       !.submitDisabled = IF ok THEN @ ELSE FALSE]

\* handleLoading(loading); the fallback page has no such listener
handleLoading(v, loading) ==
    IF v.fallback THEN v ELSE [v EXCEPT !.overlay = loading]

\* the page's message listener
onMessage(v, msg) ==
    CASE msg.type = "review-result" -> handleReviewResult(v, msg.text, msg.ok)
      [] msg.type = "loading"       -> handleLoading(v, msg.loading)
      [] OTHER                      -> v

\* a handler call on the panel object: its fields, the messages it has
\* posted, and whether it has raised an error
PanelRun(b) == [b |-> b, posted |-> <<>>, raised |-> FALSE]

\* this.panel.webview.postMessage(msg), this.panel being set
postMessage(P, msg) ==
    [P EXCEPT !.b.view = onMessage(@, msg),
              !.posted = Append(@, msg)]

\* the panel object as its constructor leaves it
NewBuild ==
    [panel       |-> NoPanel,
     view        |-> NoView,
     evaluations |-> {},
     created     |-> 0,
     submitted   |-> 0]

\* show(codePreview, metadata): an open panel is revealed and updated,
\* otherwise a panel is created and its page loaded
show(P, fallback) ==
    IF P.b.panel # NoPanel
    THEN postMessage(postMessage(P, [type |-> "update-stats"]),
                     [type |-> "update-code-preview"])
    ELSE [P EXCEPT !.b.panel = P.b.created + 1,
                   !.b.created = @ + 1,
                   !.b.view = NewView(fallback)]

\* dispose(), and the panel's onDidDispose listener
dispose(P) ==
    IF P.b.panel = NoPanel THEN P
    ELSE [P EXCEPT !.b.panel = NoPanel, !.b.view = NoView]

\* handleSubmitSummary(summaryText) up to its await: the evaluator is asked
handleSubmitSummaryUntilAwait(P, summaryText) ==
    IF P.b.panel = NoPanel THEN P
    ELSE LET P1 == postMessage(P, [type |-> "loading", loading |-> TRUE])
         IN  [P1 EXCEPT !.b.evaluations =
                            @ \cup {[n     |-> P.b.submitted + 1,
                                     panel |-> P.b.panel,
                                     text  |-> summaryText]},
                        !.b.submitted = @ + 1]

\* mutant: a failed evaluation is reported as a verdict
handleSubmitSummaryAfterAwaitAlwaysOk(P, ev, outcome) ==
    LET P0 == [P EXCEPT !.b.evaluations = @ \ {ev}]
    IN  IF P0.b.panel = NoPanel THEN [P0 EXCEPT !.raised = TRUE]
        ELSE LET P1 == postMessage(P0, [type |-> "review-result",
                                        text |-> outcome.text,
                                        ok   |-> TRUE])
             IN  postMessage(P1, [type |-> "loading", loading |-> FALSE])

\* handleSubmitSummary(summaryText) from its await on: with no panel every
\* postMessage throws, the one of the finally block last
handleSubmitSummaryAfterAwait(P, ev, outcome) ==
    LET P0 == [P EXCEPT !.b.evaluations = @ \ {ev}]
    IN  IF P0.b.panel = NoPanel THEN [P0 EXCEPT !.raised = TRUE]
        ELSE LET P1 == postMessage(P0, [type |-> "review-result",
                                        text |-> IF outcome.ok
                                                 THEN outcome.text
                                                 ELSE ReviewFailed(outcome.text),
                                        ok   |-> outcome.ok])
             IN  postMessage(P1, [type |-> "loading", loading |-> FALSE])

\* the page's click listener of the submit button
submitClick(P, value) ==
    LET summary == Trim(value)
    IN  IF Len(summary) = 0 THEN P
        ELSE LET shown == [P EXCEPT !.b.view.overlay =
                                        IF P.b.view.fallback THEN @ ELSE TRUE,
                                    !.b.view.submitDisabled = TRUE]
             IN  handleSubmitSummaryUntilAwait(shown, summary)

\* the page's click listener of the retry button
retryClick(P) ==
    [P EXCEPT !.b.view.overlay = FALSE,
              !.b.view.resultShown = FALSE,
              !.b.view.submitDisabled = FALSE]

BuildCall(op, P, ev, outcome) ==
    [op      |-> op,
     panel   |-> build.panel,
     from    |-> ev.panel,
     ok      |-> outcome.ok,
     posted  |-> P.posted,
     raised  |-> P.raised,
     asked   |-> P.b.submitted - build.submitted]

NoEvaluation == [n |-> 0, panel |-> NoPanel, text |-> <<>>]
NoOutcome == [ok |-> TRUE, text |-> "Looks fine"]

InitBuild ==
    /\ build = NewBuild
    /\ buildCall = [op |-> "new", panel |-> NoPanel, from |-> NoPanel,
                    ok |-> TRUE, posted |-> <<>>, raised |-> FALSE,
                    asked |-> 0]

InitHost == starting = 0 /\ InitBuild /\ InitCamera

(***************************************************************************)
(* Initial state: a freshly constructed monitor                            *)
(***************************************************************************)
\* a call with its inputs and result, and whether the document it is about
\* had an entry, and an open window, when the call was made; for a message
\* of the panel, its text and whether a summary was held already
Call(op, uri, event, result) ==
    [op |-> op, uri |-> uri, event |-> event, result |-> result,
     hadEntry |-> uri # noUri /\ MapHas(pending, uri),
     wasOpen  |-> isInReviewWindow(uri),
     text     |-> <<>>,
     hadSummary |-> lastBulkInsertSummary # undefined]

NoProbe == [chars |-> 0, lines |-> 0, languageId |-> "typescript", ms |-> -1]

InitMonitorFields ==
    /\ pending = <<>>
    /\ lastBulkInsert = undefined
    /\ lastBulkInsertSummary = undefined
    /\ summaryPanel = undefined
    /\ notifications = <<>>
    /\ lastCall = Call("new", noUri, noEvent, FALSE)
    /\ bulkLog = [d \in Docs |-> undefined]
    /\ lastBulkCall = undefined

InitMonitor == now = 0 /\ InitMonitorFields

Init == InitMonitor /\ probe = NoProbe /\ InitBot /\ InitHost

(***************************************************************************)
(* Actions                                                                 *)
(***************************************************************************)
\* vscode.workspace.onDidChangeTextDocument -> handleTextChange(e)
handleTextChange(uriKey, e) ==
    LET agg == Aggregate[e]
    IN  /\ IF IsLargeInsertion(agg.insertedChars, agg.insertedLines)
           THEN LET rec == NewPendingReview(uriKey, agg.insertedChars,
                                            agg.insertedLines)
                IN  /\ pending' = MapSet(pending, uriKey, rec)
                    /\ lastBulkInsert' = NewBulkInsert(uriKey, agg)
                    /\ notifications' =
                           <<LargeInsertionMessage(agg, rec.expectedMs)>>
                    /\ summaryPanel' = openSummaryPanel(agg.text, uriKey)
                    /\ bulkLog' = [bulkLog EXCEPT ![uriKey] =
                           [at |-> now, event |-> e, editedSince |-> FALSE,
                            warnedSince |-> FALSE]]
                    /\ lastBulkCall' = [uri |-> uriKey, event |-> e, at |-> now]
           ELSE /\ pending' = PendingAfterEdit(uriKey, agg)
                /\ notifications' = MessagesAfterEdit(uriKey, agg)
                /\ bulkLog' = [bulkLog EXCEPT ![uriKey] =
                       IF @ = undefined THEN @
                       ELSE [@ EXCEPT !.editedSince = TRUE,
                                      !.warnedSince =
                                          @ \/ MessagesAfterEdit(uriKey, agg) # <<>>]]
                /\ UNCHANGED <<lastBulkInsert, summaryPanel, lastBulkCall>>
        /\ lastCall' = Call("handleTextChange", uriKey, e, FALSE)
        /\ UNCHANGED <<now, lastBulkInsertSummary, probe, botVars, hostVars>>

\* a caller asks isInReviewWindow(uri), as the emotion callback does
QueryReviewWindow(uri) ==
    /\ pending' = PendingAfterQuery(uri)
    /\ lastCall' = Call("isInReviewWindow", uri, noEvent, isInReviewWindow(uri))
    /\ notifications' = <<>>
    /\ UNCHANGED <<now, lastBulkInsert, lastBulkInsertSummary, summaryPanel,
                   bulkLog, lastBulkCall, probe, botVars, hostVars>>

\* mutant: a summary once captured is kept
SubmitSummaryFirstWins(text) ==
    /\ summaryPanel # undefined
    /\ LET trimmed == Trim(text)
       IN  IF Len(trimmed) > 0
           THEN /\ lastBulkInsertSummary' =
                       IF lastBulkInsertSummary # undefined
                       THEN lastBulkInsertSummary
                       ELSE [summaryText |-> trimmed,
                             timestamp   |-> now,
                             uri         |-> summaryPanel.uri]
                /\ notifications' = <<[kind |-> "summary-captured"]>>
                /\ summaryPanel' = undefined
           ELSE /\ notifications' = <<[kind |-> "summary-empty"]>>
                /\ UNCHANGED <<lastBulkInsertSummary, summaryPanel>>
    /\ lastCall' = [Call("submit-summary", noUri, noEvent, FALSE)
                       EXCEPT !.text = text]
    /\ UNCHANGED <<now, pending, lastBulkInsert, bulkLog, lastBulkCall, probe, botVars, hostVars>>

\* the panel's onDidReceiveMessage with {type: "submit-summary", text}
SubmitSummary(text) ==
    /\ summaryPanel # undefined
    /\ LET trimmed == Trim(text)
       IN  IF Len(trimmed) > 0
           THEN /\ lastBulkInsertSummary' = [summaryText |-> trimmed,
                                             timestamp   |-> now,
                                             uri         |-> summaryPanel.uri]
                /\ notifications' = <<[kind |-> "summary-captured"]>>
                /\ summaryPanel' = undefined
           ELSE /\ notifications' = <<[kind |-> "summary-empty"]>>
                /\ UNCHANGED <<lastBulkInsertSummary, summaryPanel>>
    /\ lastCall' = [Call("submit-summary", noUri, noEvent, FALSE)
                       EXCEPT !.text = text]
    /\ UNCHANGED <<now, pending, lastBulkInsert, bulkLog, lastBulkCall, probe, botVars, hostVars>>

\* the user closes the panel: onDidDispose
DisposePanel ==
    /\ summaryPanel # undefined
    /\ summaryPanel' = undefined
    /\ notifications' = <<>>
    /\ lastCall' = Call("dispose", noUri, noEvent, FALSE)
    /\ UNCHANGED <<now, pending, lastBulkInsert, lastBulkInsertSummary,
                   bulkLog, lastBulkCall, probe, botVars, hostVars>>

\* time passes
Elapse(t) ==
    /\ t > now
    /\ t <= MaxNow
    /\ now' = t
    /\ lastCall' = Call("elapse", noUri, noEvent, FALSE)
    /\ UNCHANGED <<pending, lastBulkInsert, lastBulkInsertSummary, summaryPanel,
                   notifications, bulkLog, lastBulkCall, probe, botVars, hostVars>>

\* one second passes
Tick == Elapse(now + 1000)

\* time passes up to the last millisecond of a review window, or to its end
WaitForDeadline ==
    \E k \in DOMAIN pending :
        \E t \in {pending[k].deadline - 1, pending[k].deadline} : Elapse(t)

Next ==
    \/ \E d \in Docs, e \in EventIds : handleTextChange(d, e)
    \/ \E u \in Docs \cup {noUri} : QueryReviewWindow(u)
    \/ Tick
    \/ WaitForDeadline

\* the monitor with a user who leaves the summary panel alone
Spec == Init /\ [][Next]_vars

\* the edit events of the runs in which the user also answers the panel
PanelEventIds == {"type5", "lines8", "paste400"}

NextPanel ==
    \/ \E d \in Docs, e \in PanelEventIds : handleTextChange(d, e)
    \/ \E u \in Docs \cup {noUri} : QueryReviewWindow(u)
    \/ \E text \in SummaryTexts : SubmitSummary(text)
    \/ DisposePanel
    \/ Tick

\* the monitor with a user who submits summaries and closes the panel
SpecPanel == Init /\ [][NextPanel]_vars

\* the edit events of the runs with insertions around the preview's length
PreviewEventIds == {"type5", "paste4000", "paste4001"}

NextPreview ==
    \/ \E d \in Docs, e \in PreviewEventIds : handleTextChange(d, e)
    \/ DisposePanel
    \/ Tick

\* the monitor with insertions that fill the preview and exceed it
SpecPreview == Init /\ [][NextPreview]_vars

(***************************************************************************)
(* The estimator on its own: inputs drawn from bounded sets                *)
(***************************************************************************)
ProbeChars == (0..MaxProbeChars) \cup {100000}
ProbeLines == (0..MaxProbeLines) \cup {1000}

InitEstimate ==
    /\ InitMonitor
    /\ probe \in [chars : ProbeChars, lines : ProbeLines,
                  languageId : LanguageIds, ms : {-1}]
    /\ InitBot
    /\ InitHost

Estimate ==
    /\ probe.ms = -1
    /\ probe' = [probe EXCEPT !.ms =
                    estimateReviewTimeMs(probe.chars, probe.lines,
                                         probe.languageId)]
    /\ UNCHANGED <<now, pending, lastBulkInsert, lastBulkInsertSummary,
                   summaryPanel, notifications, lastCall, bulkLog,
                   lastBulkCall, botVars, hostVars>>

NextEstimate == Estimate

SpecEstimate == InitEstimate /\ [][NextEstimate]_vars

(***************************************************************************)
(* The bot's runs: commands, timer tasks and the clock                     *)
(***************************************************************************)
\* the process state a bot call starts from
Here == Process(bot, timers, <<>>)

\* the process state a bot call ends in
Becomes(S) ==
    /\ bot' = S.bot
    /\ timers' = S.timers
    /\ botShown' = S.shown

monitorFrame == <<pending, lastBulkInsert, lastBulkInsertSummary, summaryPanel,
                  notifications, lastCall, bulkLog, lastBulkCall, probe>>

InitBotRun ==
    /\ now = BotEpoch
    /\ InitMonitorFields
    /\ probe = NoProbe
    /\ InitBot
    /\ InitHost

\* a caller, the start command of the extension among them, calls startSession()
StartSession ==
    /\ Becomes(startSession(Here))
    /\ botCall' = BotCall("startSession", 0, NoTask)
    /\ UNCHANGED <<now, monitorFrame, hostVars>>

\* the same with the variant that reads codingBuddy.badgeIntervalMinutes
StartSessionConfigured(mins) ==
    /\ Becomes(startSessionConfigured(Here, mins))
    /\ botCall' = BotCall("startSessionConfigured", mins, NoTask)
    /\ UNCHANGED <<now, monitorFrame, hostVars>>

\* a caller, the stop command of the extension among them, calls stopSession()
\* mutant: stopping the session also forgets the review windows
StopSessionClearingReviews ==
    LET S == stopSession(Here)
    IN  /\ Becomes(S)
        /\ pending' = <<>>
        /\ botCall' = BotCall("stopSession", 0, NoTask)
        /\ UNCHANGED <<now, lastBulkInsert, lastBulkInsertSummary,
                       summaryPanel, notifications, lastCall, bulkLog,
                       lastBulkCall, probe, hostVars>>

\* of an active session, which also calls emotionDetector.stopDetection()
StopSession ==
    LET S == stopSession(Here)
        C0 == Camera(detector, intervals, <<>>)
        C == IF bot.isActive THEN stopDetection(C0) ELSE C0
    IN  /\ bot' = S.bot
        /\ timers' = S.timers
        /\ botShown' = C.shown \o S.shown
        /\ detector' = C.detector
        /\ intervals' = C.intervals
        /\ botCall' = BotCall("stopSession", 0, NoTask)
        /\ UNCHANGED <<now, monitorFrame, starting, buildVars,
                       detectStarts, cameraCall>>

\* a caller, the start command of the extension among them, sets the interval
SetBadgeIntervalMinutes(mins) ==
    /\ Becomes(setBadgeIntervalMinutes(Here, mins))
    /\ botCall' = BotCall("setBadgeIntervalMinutes", mins, NoTask)
    /\ UNCHANGED <<now, monitorFrame, hostVars>>

\* the event loop runs a timer task whose delay has passed
TimerFires(task) ==
    /\ task \in timers
    /\ now >= task.dueAt
    /\ Becomes(timerCallback(Here, task))
    /\ botCall' = BotCall("timer", 0, task)
    /\ UNCHANGED <<now, monitorFrame, hostVars>>

\* time passes, due timer tasks or not
BotElapse(t) ==
    /\ t > now
    /\ t <= BotEpoch + BotHorizon
    /\ now' = t
    /\ botShown' = <<>>
    /\ botCall' = BotCall("elapse", 0, NoTask)
    /\ UNCHANGED <<bot, timers, monitorFrame, hostVars>>

\* the steps of the clock: half a minute, and a minute and five seconds
BotSteps == {30000, 65000}

BotTick == \E dt \in BotSteps : BotElapse(now + dt)

\* time passes up to the moment a timer task becomes due
WaitForTimer == \E task \in timers : BotElapse(task.dueAt)

NextBot ==
    \/ StartSession
    \/ \E mins \in BadgeMinutes : StartSessionConfigured(mins)
    \/ StopSession
    \/ \E mins \in BadgeMinutes : SetBadgeIntervalMinutes(mins)
    \/ \E task \in timers : TimerFires(task)
    \/ BotTick
    \/ WaitForTimer

\* the bot with its commands, its timer and the clock
SpecBot == InitBotRun /\ [][NextBot]_vars

(***************************************************************************)
(* The bot with startSession() in its two halves: a caller that does not   *)
(* await it makes its next calls before the half after the await runs      *)
(***************************************************************************)
MaxStarting == 2
AwaitHorizon == 65000

awaitFrame == <<now, monitorFrame, buildVars, cameraVars>>

\* a caller calls startSession(), which runs up to its await
BeginStartSession ==
    /\ starting < MaxStarting
    /\ botCall' = BotCall("startSession", 0, NoTask)
    /\ IF bot.isActive
       THEN Becomes(Here) /\ UNCHANGED starting
       ELSE Becomes(startSessionUntilAwait(Here)) /\ starting' = starting + 1
    /\ UNCHANGED awaitFrame

\* the same with the variant that reads codingBuddy.badgeIntervalMinutes
BeginStartSessionConfigured(mins) ==
    /\ starting < MaxStarting
    /\ botCall' = BotCall("startSessionConfigured", mins, NoTask)
    /\ IF bot.isActive
       THEN Becomes(Here) /\ UNCHANGED starting
       ELSE /\ Becomes(startSessionConfiguredUntilAwait(Here, mins))
            /\ starting' = starting + 1
    /\ UNCHANGED awaitFrame

\* a suspended startSession() is resumed
ResumeStartSession ==
    /\ starting > 0
    /\ starting' = starting - 1
    /\ Becomes(startSessionAfterAwait(Here))
    /\ botCall' = BotCall("startSession:resumed", 0, NoTask)
    /\ UNCHANGED awaitFrame

\* time passes, half a minute at a time or up to a task's due time
AwaitElapse ==
    \E t \in {now + 30000} \cup {task.dueAt : task \in timers} :
        /\ t <= BotEpoch + AwaitHorizon
        /\ BotElapse(t)

NextBotAwait ==
    \/ BeginStartSession
    \/ \E mins \in BadgeMinutes : BeginStartSessionConfigured(mins)
    \/ ResumeStartSession
    \/ StopSession
    \/ \E mins \in BadgeMinutes : SetBadgeIntervalMinutes(mins)
    \/ \E task \in timers : TimerFires(task)
    \/ AwaitElapse

\* the bot's calls, its timer and the clock around suspended startSession()s
SpecBotAwait == InitBotRun /\ [][NextBotAwait]_vars

(***************************************************************************)
(* A long session: the commands come in its first seconds, the timer then  *)
(* runs on until the list of badges is full and one more                   *)
(***************************************************************************)
CommandHorizon == 20000
MaxTicks == 201

LongMinutes == {1, 2}

Commanding == now <= BotEpoch + CommandHorizon

\* time passes
LongElapse(t) ==
    /\ t > now
    /\ now' = t
    /\ botShown' = <<>>
    /\ botCall' = BotCall("elapse", 0, NoTask)
    /\ UNCHANGED <<bot, timers, monitorFrame, hostVars>>

\* time passes up to the moment the timer task becomes due, or seven
\* seconds at once, which lets the task run late
LongWait ==
    \/ \E task \in timers :
           botCall.ticks < MaxTicks /\ LongElapse(task.dueAt)
    \/ Commanding /\ LongElapse(now + 7000)

NextLongSession ==
    \/ \E mins \in LongMinutes :
           Commanding /\ StartSessionConfigured(mins)
    \/ \E mins \in LongMinutes :
           Commanding /\ SetBadgeIntervalMinutes(mins)
    \/ Commanding /\ StopSession
    \/ \E task \in timers : TimerFires(task)
    \/ LongWait

\* the bot in sessions long enough to fill the list of badges
SpecLongSession == InitBotRun /\ [][NextLongSession]_vars

(***************************************************************************)
(* The monitor and the bot side by side, as the extension runs them        *)
(***************************************************************************)
ReviewHorizon == 3000

SessionEventIds == {"type5", "lines8"}
SessionMinutes == {5}

\* time passes for the monitor and the bot alike
SessionElapse(t) ==
    /\ t > now
    /\ t <= BotEpoch + ReviewHorizon
    /\ now' = t
    /\ lastCall' = Call("elapse", noUri, noEvent, FALSE)
    /\ botShown' = <<>>
    /\ botCall' = BotCall("elapse", 0, NoTask)
    /\ UNCHANGED <<pending, lastBulkInsert, lastBulkInsertSummary, summaryPanel,
                   notifications, bulkLog, lastBulkCall, probe, bot, timers,
                   hostVars>>

SessionWaitForDeadline ==
    \E k \in DOMAIN pending :
        \E t \in {pending[k].deadline - 1, pending[k].deadline} :
            SessionElapse(t)

NextSession ==
    \/ \E d \in Docs, e \in SessionEventIds : handleTextChange(d, e)
    \/ \E u \in Docs : QueryReviewWindow(u)
    \/ StartSession
    \/ StopSession
    \/ \E mins \in SessionMinutes : SetBadgeIntervalMinutes(mins)
    \/ SessionWaitForDeadline

\* edits and window queries interleaved with the session commands
SpecSession == InitBotRun /\ [][NextSession]_vars

(***************************************************************************)
(* The summary panel of part_005: the user, the page and the evaluator     *)
(***************************************************************************)
buildFrame == <<now, monitorFrame, botVars, starting, cameraVars>>

\* the state a panel handler ends in
BuildBecomes(op, P, ev, outcome) ==
    /\ build' = P.b
    /\ buildCall' = BuildCall(op, P, ev, outcome)
    /\ UNCHANGED buildFrame

\* a caller shows the panel; reading the page's files succeeds or fails
ShowBuildPanel(fallback) ==
    /\ build.panel # NoPanel \/ build.created < MaxPanels
    /\ BuildBecomes("show", show(PanelRun(build), fallback),
                    NoEvaluation, NoOutcome)

\* the user clicks the submit button; the page's message reaches handleMessage
ClickSubmit(value) ==
    /\ build.panel # NoPanel
    /\ ~build.view.submitDisabled
    /\ build.submitted < MaxSubmissions
    /\ BuildBecomes("submit", submitClick(PanelRun(build), value),
                    NoEvaluation, NoOutcome)

\* the evaluator's promise settles and handleSubmitSummary goes on
EvaluationEnds(ev, outcome) ==
    /\ ev \in build.evaluations
    /\ BuildBecomes("evaluated",
                    handleSubmitSummaryAfterAwait(PanelRun(build), ev, outcome),
                    ev, outcome)

\* the user clicks the retry button of the page of part_006
ClickRetry ==
    /\ build.panel # NoPanel
    /\ ~build.view.fallback
    /\ build.view.retryShown
    /\ BuildBecomes("retry", retryClick(PanelRun(build)),
                    NoEvaluation, NoOutcome)

\* the user clicks the close button: "close-panel" reaches handleMessage
ClickClose ==
    /\ build.panel # NoPanel
    /\ build.view.closeShown
    /\ BuildBecomes("close-panel", dispose(PanelRun(build)),
                    NoEvaluation, NoOutcome)

\* the user closes the panel's tab: onDidDispose
UserClosesPanel ==
    /\ build.panel # NoPanel
    /\ BuildBecomes("onDidDispose", dispose(PanelRun(build)),
                    NoEvaluation, NoOutcome)

NextBuild ==
    \/ \E fallback \in BOOLEAN : ShowBuildPanel(fallback)
    \/ \E value \in SummaryTexts : ClickSubmit(value)
    \/ \E ev \in build.evaluations, outcome \in Outcomes :
           EvaluationEnds(ev, outcome)
    \/ ClickRetry
    \/ ClickClose
    \/ UserClosesPanel

\* the summary panel with its user and its evaluator
SpecBuild == Init /\ [][NextBuild]_vars

(***************************************************************************)
(* The camera: toggleCamera, the detector's asynchronous start and its     *)
(* interval timer                                                          *)
(***************************************************************************)
cameraFrame == <<now, monitorFrame, timers, botCall, starting, buildVars>>

\* a caller, the toggle command of the extension among them, calls
\* toggleCamera(); a startDetection() it awaits is left suspended
ToggleCamera ==
    LET C0 == Camera(detector, intervals, <<>>)
    IN  /\ detectStarts < MaxDetectStarts
        /\ cameraCall' = CameraCall("toggleCamera")
        /\ UNCHANGED cameraFrame
        /\ IF ~bot.isActive
           THEN /\ botShown' = <<[kind |-> "start-session-first"]>>
                /\ UNCHANGED <<bot, detector, intervals, detectStarts>>
           ELSE IF bot.isCameraActive
           THEN LET C == stopDetection(C0)
                IN  /\ bot' = [bot EXCEPT !.isCameraActive = FALSE]
                    /\ detector' = C.detector
                    /\ intervals' = C.intervals
                    /\ botShown' = Append(C.shown, [kind |-> "camera-off"])
                    /\ UNCHANGED detectStarts
           ELSE LET R == startDetectionUntilAwait(C0)
                IN  /\ bot' = [bot EXCEPT !.isCameraActive = TRUE]
                    /\ detector' = R[1].detector
                    /\ intervals' = R[1].intervals
                    /\ IF R[2]
                       THEN /\ detectStarts' = detectStarts + 1
                            /\ botShown' = <<>>
                       ELSE /\ botShown' = <<[kind |-> "camera-on"]>>
                            /\ UNCHANGED detectStarts

\* the awaits of a suspended startDetection() are over, the webcam works:
\* startDetection() finishes, then startEmotionDetection() and toggleCamera()
DetectionStarts ==
    LET C == startDetectionAfterAwait(Camera(detector, intervals, <<>>))
    IN  /\ detectStarts > 0
        /\ Cardinality(intervals) < MaxIntervals
        /\ detectStarts' = detectStarts - 1
        /\ detector' = C.detector
        /\ intervals' = C.intervals
        /\ botShown' = Append(C.shown, [kind |-> "camera-on"])
        /\ cameraCall' = CameraCall("started")
        /\ UNCHANGED <<bot, cameraFrame>>

\* one of the awaits of a suspended startDetection() throws: the catch of
\* startEmotionDetection() takes the camera flag back
DetectionFails ==
    LET C == startDetectionThrows(Camera(detector, intervals, <<>>))
    IN  /\ detectStarts > 0
        /\ detectStarts' = detectStarts - 1
        /\ detector' = C.detector
        /\ intervals' = C.intervals
        /\ bot' = [bot EXCEPT !.isCameraActive = FALSE]
        /\ botShown' = C.shown \o <<[kind |-> "camera-failed"],
                                     [kind |-> "camera-on"]>>
        /\ cameraCall' = CameraCall("failed")
        /\ UNCHANGED cameraFrame

\* the event loop runs the callback of an interval timer, which detects
\* only if isDetecting and callback are set
IntervalFires(h) ==
    /\ h \in intervals
    /\ cameraCall' = CameraCall("interval")
    /\ botShown' = <<>>
    /\ UNCHANGED <<bot, detector, intervals, detectStarts, cameraFrame>>

NextCamera ==
    \/ StartSession
    \/ StopSession
    \/ ToggleCamera
    \/ DetectionStarts
    \/ DetectionFails
    \/ \E h \in intervals : IntervalFires(h)

\* the bot's session and camera commands with the detector's slow start
SpecCamera == InitBotRun /\ [][NextCamera]_vars

(***************************************************************************)
(* What an edit event inserts, stated from the texts alone                 *)
(***************************************************************************)
RECURSIVE ConcatTexts(_)
ConcatTexts(changes) ==
    IF changes = <<>> THEN <<>>
    ELSE Head(changes).text \o ConcatTexts(Tail(changes))

Inserted ==
    [e \in AllEventIds |->
        LET all == ConcatTexts(contentChanges[e])
        IN  [text      |-> all,
             chars     |-> Len(all),
             newlines  |-> Cardinality({i \in DOMAIN all : all[i] = LF}),
             fragments |-> Len(contentChanges[e]),
             nonBlank  |-> \E i \in DOMAIN all : all[i] \notin Whitespace]]

BulkInsertion(e) == Inserted[e].chars >= 300 \/ Inserted[e].newlines >= 8

IncrementalTyping(e) ==
    /\ ~BulkInsertion(e)
    /\ Inserted[e].chars <= 32
    /\ Inserted[e].fragments <= 3
    /\ Inserted[e].nonBlank

NeutralEdit(e) == ~BulkInsertion(e) /\ ~IncrementalTyping(e)

HandledEdit(c) == c.op = "handleTextChange"

ShowsLargeInsertion(msgs) ==
    \E i \in DOMAIN msgs : msgs[i].kind = "large-insertion"

ShowsEarlyEdit(msgs) ==
    \E i \in DOMAIN msgs : msgs[i].kind = "early-edit"

(***************************************************************************)
(* Properties                                                              *)
(***************************************************************************)

\* C1: an edit event is treated as a bulk insertion (a window is opened for
\* its document, the payload cache is overwritten and the review prompt is
\* shown) if and only if its inserted characters are >= 300 or its inserted
\* newlines are >= 8, deleted ranges not counting; any other event opens no
\* window and leaves the payload cache as it was.
C1_BulkIffThreshold ==
    [][HandledEdit(lastCall') =>
        LET d == lastCall'.uri
            e == lastCall'.event
        IN  IF BulkInsertion(e)
            THEN /\ ShowsLargeInsertion(notifications')
                 /\ d \in DOMAIN pending'
                 /\ pending'[d].deadline = now + pending'[d].expectedMs
                 /\ pending'[d].chars = Inserted[e].chars
                 /\ pending'[d].lines = Inserted[e].newlines
                 /\ lastBulkInsert' # undefined
                 /\ lastBulkInsert'.timestamp = now
                 /\ lastBulkInsert'.uri = d
            ELSE /\ ~ShowsLargeInsertion(notifications')
                 /\ lastBulkInsert' = lastBulkInsert
                 /\ DOMAIN pending' \subseteq DOMAIN pending
                 /\ \A k \in DOMAIN pending' : pending'[k] = pending[k]]_vars

\* C1 witness: an event of exactly 300 inserted characters, one of whose
\* changes replaces a 400-character range, has opened a window
C1_Witness ==
    /\ HandledEdit(lastCall)
    /\ lastCall.event = "paste300"
    /\ ~lastCall.hadEntry
    /\ lastCall.uri \in DOMAIN pending
    /\ lastBulkInsert # undefined
    /\ lastBulkInsert.timestamp = now

\* C2: the pending table holds at most one PendingReview per document, and a
\* bulk insertion on a document whose window is still open replaces the
\* entry wholesale: deadline, expectedMs, chars and lines are those computed
\* from the second insertion alone.
C2_ReplaceWholesale ==
    [][/\ DOMAIN pending' \subseteq Docs
       /\ (HandledEdit(lastCall') /\ BulkInsertion(lastCall'.event)
           /\ lastCall'.uri \in DOMAIN pending
           /\ now < pending[lastCall'.uri].deadline) =>
            LET d == lastCall'.uri
                e == lastCall'.event
                E == estimateReviewTimeMs(Inserted[e].chars,
                                          Inserted[e].newlines, languageId[d])
            IN  pending'[d] = [deadline   |-> now + E,
                               expectedMs |-> E,
                               chars      |-> Inserted[e].chars,
                               lines      |-> Inserted[e].newlines]]_vars

\* C2 witness: a 300-character insertion has replaced the open window that a
\* larger insertion had left on the same document
C2_Witness ==
    /\ HandledEdit(lastCall)
    /\ lastCall.event = "paste300"
    /\ lastCall.wasOpen
    /\ now > 0
    /\ lastCall.uri \in DOMAIN pending
    /\ pending[lastCall.uri].chars = 300
    /\ pending[lastCall.uri].deadline = now + pending[lastCall.uri].expectedMs

\* C3: after a bulk insertion handled at t0 with estimate E and no later edit
\* on that document, isInReviewWindow(doc) is true at every time from t0 to
\* t0 + E - 1 and false at t0 + E and afterwards.
C3_WindowUntilDeadline ==
    \A d \in Docs :
        (bulkLog[d] # undefined /\ ~bulkLog[d].editedSince) =>
            LET e == bulkLog[d].event
                E == estimateReviewTimeMs(Inserted[e].chars,
                                          Inserted[e].newlines, languageId[d])
            IN  /\ now >= bulkLog[d].at
                /\ isInReviewWindow(d) <=> (now <= bulkLog[d].at + E - 1)

\* C3 witness: the clock stands exactly at the deadline of an untouched
\* window and the window is closed
C3_Witness ==
    \E d \in Docs :
        /\ bulkLog[d] # undefined
        /\ ~bulkLog[d].editedSince
        /\ d \in DOMAIN pending
        /\ now = pending[d].deadline
        /\ now = bulkLog[d].at + pending[d].expectedMs
        /\ ~isInReviewWindow(d)

\* C4: incremental typing on a document whose window is still open emits
\* exactly one warning, carrying the time elapsed since the bulk insertion
\* and the entry's expected duration, and removes the entry.
C4_EarlyEditWarns ==
    [][(HandledEdit(lastCall') /\ IncrementalTyping(lastCall'.event)
        /\ lastCall'.uri \in DOMAIN pending
        /\ now < pending[lastCall'.uri].deadline) =>
            LET d == lastCall'.uri
            IN  /\ Len(notifications') = 1
                /\ notifications'[1].kind = "early-edit"
                /\ notifications'[1].elapsed = now - bulkLog[d].at
                /\ notifications'[1].expectedMs = pending[d].expectedMs
                /\ d \notin DOMAIN pending']_vars

\* C4 witness: 400 characters in 10 lines were inserted, 5 characters were
\* typed 1000 ms later, the warning says 1000 of 7500 ms and the entry is gone
C4_Witness ==
    /\ HandledEdit(lastCall)
    /\ lastCall.event = "type5"
    /\ lastCall.wasOpen
    /\ bulkLog[lastCall.uri].event = "paste400"
    /\ now = bulkLog[lastCall.uri].at + 1000
    /\ Len(notifications) = 1
    /\ notifications[1].kind = "early-edit"
    /\ notifications[1].elapsed = 1000
    /\ notifications[1].expectedMs = 7500
    /\ lastCall.uri \notin DOMAIN pending

\* C5: an edit that is not a bulk insertion, arriving on a document that has
\* an entry when the deadline has been reached, removes the entry and emits
\* no warning, whatever it inserts.
C5_TimeoutClearsSilently ==
    [][(HandledEdit(lastCall') /\ ~BulkInsertion(lastCall'.event)
        /\ lastCall'.uri \in DOMAIN pending
        /\ now >= pending[lastCall'.uri].deadline) =>
            /\ lastCall'.uri \notin DOMAIN pending'
            /\ notifications' = <<>>]_vars

\* C5 witness: typing has arrived on a document whose entry had expired, and
\* the entry is gone without a message
C5_Witness ==
    /\ HandledEdit(lastCall)
    /\ IncrementalTyping(lastCall.event)
    /\ lastCall.hadEntry
    /\ ~lastCall.wasOpen
    /\ lastCall.uri \notin DOMAIN pending
    /\ notifications = <<>>

\* C6: an edit event on one document leaves the entry of every other
\* document as it was (not created, not removed, no field altered), and
\* isInReviewWindow of the other document answers as before.
C6_OtherDocumentsUntouched ==
    [][HandledEdit(lastCall') =>
        \A b \in Docs \ {lastCall'.uri} :
            /\ (b \in DOMAIN pending') <=> (b \in DOMAIN pending)
            /\ b \in DOMAIN pending => pending'[b] = pending[b]
            /\ isInReviewWindow(b)' <=> isInReviewWindow(b)]_vars

\* C6 witness: an edit has cleared the expired entry of one document while
\* the other document keeps an expired entry of its own
C6_Witness ==
    /\ HandledEdit(lastCall)
    /\ lastCall.hadEntry
    /\ ~lastCall.wasOpen
    /\ lastCall.uri \notin DOMAIN pending
    /\ \E b \in Docs \ {lastCall.uri} :
           b \in DOMAIN pending /\ now >= pending[b].deadline

\* C7: isInReviewWindow(doc) is true exactly when doc has an entry and now is
\* before its deadline, false for an undefined uri, and a call changes
\* neither the pending table nor the payload cache nor the summary slot.
C7_QueryIsPure ==
    [][lastCall'.op = "isInReviewWindow" =>
        LET u == lastCall'.uri
        IN  /\ lastCall'.result <=>
                 (u # noUri /\ u \in DOMAIN pending /\ now < pending[u].deadline)
            /\ pending' = pending
            /\ lastBulkInsert' = lastBulkInsert
            /\ lastBulkInsertSummary' = lastBulkInsertSummary]_vars

\* C7 witness: the query was made after the deadline of an entry that is
\* still in the table, with a summary in the slot
C7_Witness ==
    /\ lastCall.op = "isInReviewWindow"
    /\ lastCall.uri \in DOMAIN pending
    /\ now >= pending[lastCall.uri].deadline
    /\ ~lastCall.result
    /\ lastBulkInsertSummary # undefined

\* C8: the estimate is chars*15 + lines*150, times 1.2 for a java document,
\* clamped into [1500, 20000]: estimate(0,0) = 1500, estimate(100000,1000) =
\* 20000, estimate(400,10) = 7500 when the document is not java.
C8_EstimateClamped ==
    probe.ms # -1 =>
        LET raw == probe.chars * 15 + probe.lines * 150
            java == probe.languageId \in {"java", "Java"}
        IN  /\ probe.ms >= 1500
            /\ probe.ms <= 20000
            /\ ~java /\ raw \in 1500..20000 => probe.ms = raw
            /\ ~java /\ raw < 1500 => probe.ms = 1500
            /\ ~java /\ raw > 20000 => probe.ms = 20000
            /\ java /\ 12 * raw >= 15000 /\ 12 * raw <= 200000
                  => 10 * probe.ms = 12 * raw
            /\ java /\ 12 * raw < 15000 => probe.ms = 1500
            /\ java /\ 12 * raw > 200000 => probe.ms = 20000
            /\ probe.chars = 0 /\ probe.lines = 0 => probe.ms = 1500
            /\ probe.chars = 100000 /\ probe.lines = 1000 => probe.ms = 20000
            /\ ~java /\ probe.chars = 400 /\ probe.lines = 10
                  => probe.ms = 7500

\* C8 witness: 400 characters in 10 lines of typescript give 7500 ms
C8_Witness ==
    /\ probe.chars = 400
    /\ probe.lines = 10
    /\ probe.languageId = "typescript"
    /\ probe.ms = 7500

\* C9: the payload cache is one last-wins slot: the getters return absent
\* until the first bulk insertion and afterwards the text and the
\* {timestamp, uri, chars, lines} of the most recent bulk insertion over all
\* documents, both of the same insertion; nothing else changes the slot.
C9_CacheLastWins ==
    IF lastBulkCall = undefined
    THEN /\ lastBulkInsert = undefined
         /\ getLastBulkInsertMeta = undefined
    ELSE /\ lastBulkInsert # undefined
         /\ getLastBulkInsertMeta =
                [timestamp |-> lastBulkCall.at,
                 uri       |-> lastBulkCall.uri,
                 chars     |-> Inserted[lastBulkCall.event].chars,
                 lines     |-> Inserted[lastBulkCall.event].newlines]
         /\ getLastBulkInsertText = Aggregate[lastBulkCall.event].text

\* C9 witness: after a bulk insertion on each document, typing has cleared
\* the window of the earlier one and the cache still holds the later one
C9_Witness ==
    /\ HandledEdit(lastCall)
    /\ IncrementalTyping(lastCall.event)
    /\ ShowsEarlyEdit(notifications)
    /\ lastBulkCall # undefined
    /\ lastBulkCall.uri # lastCall.uri
    /\ bulkLog[lastCall.uri].at < lastBulkCall.at
    /\ getLastBulkInsertMeta.uri = lastBulkCall.uri
    /\ getLastBulkInsertMeta.timestamp = lastBulkCall.at

\* C10: the cached text is the inserted fragments of the bulk event
\* concatenated in arrival order and nothing else, so its length equals the
\* cached chars count.
C10_TextIsConcatenation ==
    lastBulkInsert # undefined =>
        /\ lastBulkInsert.text = Inserted[lastBulkCall.event].text
        /\ Len(lastBulkInsert.text) = lastBulkInsert.chars

\* C11 as stated: an event that is neither a bulk insertion nor incremental
\* typing changes neither the pending table nor the payload cache and emits
\* no warning, at any time relative to the document's deadline.
C11_NeutralIgnoredAtAnyTime ==
    [][(HandledEdit(lastCall') /\ NeutralEdit(lastCall'.event)) =>
        /\ pending' = pending
        /\ lastBulkInsert' = lastBulkInsert
        /\ notifications' = <<>>]_vars

\* C11 amended: an event that is neither a bulk insertion nor incremental
\* typing leaves the payload cache as it was and emits no warning; it leaves
\* the pending table as it was while its document has no entry or the
\* deadline is still ahead, and at or after the deadline it removes that
\* document's expired entry and nothing else.
C11_NeutralIgnored ==
    [][(HandledEdit(lastCall') /\ NeutralEdit(lastCall'.event)) =>
        LET d == lastCall'.uri
        IN  /\ lastBulkInsert' = lastBulkInsert
            /\ notifications' = <<>>
            /\ IF d \in DOMAIN pending /\ now >= pending[d].deadline
               THEN pending' = [k \in (DOMAIN pending) \ {d} |-> pending[k]]
               ELSE pending' = pending]_vars

\* C11 witness: an event of four one-character changes arrived inside the
\* open window and the entry is still there, no message shown
C11_Witness ==
    /\ HandledEdit(lastCall)
    /\ lastCall.event = "multi4"
    /\ NeutralEdit(lastCall.event)
    /\ lastCall.wasOpen
    /\ lastCall.uri \in DOMAIN pending
    /\ notifications = <<>>

\* C12: inside an open window an edit that is not a bulk insertion shows the
\* early-edit warning and clears the entry exactly when its inserted
\* characters are <= 32, its fragments are <= 3 and some fragment holds a
\* non-whitespace character; failing any of the three it leaves the entry
\* in place and shows nothing.
C12_TypingIffSmallAndVisible ==
    [][(/\ HandledEdit(lastCall')
        /\ ~BulkInsertion(lastCall'.event)
        /\ lastCall'.uri \in DOMAIN pending
        /\ now < pending[lastCall'.uri].deadline) =>
        LET d == lastCall'.uri
            e == lastCall'.event
        IN  IF /\ Inserted[e].chars <= 32
               /\ Inserted[e].fragments <= 3
               /\ Inserted[e].nonBlank
            THEN /\ ShowsEarlyEdit(notifications')
                 /\ d \notin DOMAIN pending'
            ELSE /\ notifications' = <<>>
                 /\ pending' = pending]_vars

\* C12 witness: an event of exactly 32 inserted characters in exactly three
\* changes arrived inside the open window, was warned about and cleared the
\* entry
C12_Witness ==
    /\ HandledEdit(lastCall)
    /\ lastCall.event = "type32"
    /\ Inserted["type32"].chars = 32
    /\ Inserted["type32"].fragments = 3
    /\ lastCall.wasOpen
    /\ lastCall.uri \notin DOMAIN pending
    /\ ShowsEarlyEdit(notifications)

(***************************************************************************)
(* The badge clock, stated from the anchor, the interval and the clock     *)
(***************************************************************************)
\* the interval in milliseconds of a bot whose minutes are held in tenths
IntervalOf(b) == b.badgeIntervalMinutes * 6000

\* the target time of ordinal k for a bot
TargetOf(b, k) == b.sessionStartTime + k * IntervalOf(b)

\* a task aims at the first whole multiple of the interval, counted from
\* the anchor, that lies after time t
AimsAfter(b, task, t) ==
    /\ task.k >= 1
    /\ TargetOf(b, task.k - 1) <= t
    /\ t < TargetOf(b, task.k)
    /\ task.nextAt = TargetOf(b, task.k)
    /\ task.dueAt = t + (IF task.nextAt - t > 0 THEN task.nextAt - t ELSE 0)

BotDid(c, op) == c.op = op

\* C13: every task scheduled by scheduleNextBadge targets startTime +
\* k * intervalMs with k = floor((now - startTime) / intervalMs) + 1, with
\* the delay max(0, target - now); with intervalMs = 60000 a restart at
\* startTime + 125000 schedules k = 3 at startTime + 180000.
C13_AnchoredTarget ==
    [][\A task \in timers' \ timers : AimsAfter(bot', task, now)]_vars

\* C13 witness: a session anchored 125000 ms ago has its interval set to one
\* minute and the task now outstanding is ordinal 3, due at anchor + 180000
C13_Witness ==
    /\ BotDid(botCall, "setBadgeIntervalMinutes")
    /\ bot.isActive
    /\ bot.badgeIntervalMinutes = 10
    /\ now = bot.sessionStartTime + 125000
    /\ \E task \in timers :
           /\ task.k = 3
           /\ task.nextAt = bot.sessionStartTime + 180000
           /\ task.dueAt = now + 55000

\* the ordinal a badge was awarded for
OrdinalOf(badge) == badge.label.nth

\* newest first, badges awarded under one interval carry rising ordinals
RisingOrdinals(badges) ==
    \A i \in 1..(Len(badges) - 1) :
        badges[i].label.minutes = badges[i + 1].label.minutes =>
            OrdinalOf(badges[i]) > OrdinalOf(badges[i + 1])

\* the callback of a timer task has run in an active session
TickRan(c, b) == BotDid(c, "timer") /\ b.isActive

\* C14 as stated: within one session with a fixed interval, after the
\* callback for ordinal k has fired the rescheduled task targets ordinal
\* k + 1, none skipped, whenever the callback actually runs relative to its
\* target time.
C14_NextOrdinalWheneverRun ==
    [][TickRan(botCall', bot) =>
        /\ timers' # {}
        /\ \A task \in timers' : task.k = botCall'.k + 1]_vars

\* C14 amended: within one session with a fixed interval the ordinals
\* awarded rise strictly, so none is repeated; the callback for ordinal k
\* awards ordinal k and, when it runs before the target of ordinal k + 1,
\* the rescheduled task targets ordinal k + 1; when it runs at or after
\* that target the rescheduled task targets the first ordinal still ahead
\* and the ordinals in between are skipped.
C14_NextOrdinal ==
    [][/\ RisingOrdinals(bot'.badgesThisSession)
       /\ TickRan(botCall', bot) =>
            LET k == botCall'.k
            IN  /\ bot'.badgesThisSession # <<>>
                /\ OrdinalOf(Head(bot'.badgesThisSession)) = k
                /\ Head(bot'.badgesThisSession).at = now
                /\ Tail(bot'.badgesThisSession) = bot.badgesThisSession
                /\ Cardinality(timers') = 1
                /\ \A task \in timers' :
                       /\ AimsAfter(bot, task, now)
                       /\ IF now < TargetOf(bot, k + 1)
                          THEN task.k = k + 1
                          ELSE task.k > k + 1]_vars

\* C14 witness: the callback for ordinal 2 ran late, yet before the target
\* of ordinal 3, after the badge of ordinal 1, and ordinal 3 is scheduled
C14_Witness ==
    /\ BotDid(botCall, "timer")
    /\ botCall.k = 2
    /\ ~botCall.overdue
    /\ now > TargetOf(bot, 2)
    /\ Len(bot.badgesThisSession) = 2
    /\ OrdinalOf(bot.badgesThisSession[1]) = 2
    /\ OrdinalOf(bot.badgesThisSession[2]) = 1
    /\ \E task \in timers : task.k = 3

\* C15: after stopSession returns no milestone callback fires and no badge
\* is added until a new session is started: stop cancels the single
\* outstanding task and clears badgeClockRunning, whatever the interleaving
\* of start, stop, interval change and timer firing.
C15_NothingAfterStop ==
    [][/\ (BotDid(botCall', "stopSession") => ~bot'.isActive)
       /\ ~bot'.isActive =>
            /\ timers' = {}
            /\ bot'.badgeTimeout = NoTimeout
            /\ ~bot'.badgeClockRunning
       /\ (~bot.isActive /\ ~bot'.isActive) =>
            /\ ~BotDid(botCall', "timer")
            /\ bot'.badgesThisSession = bot.badgesThisSession]_vars

\* C15 witness: a session that earned a badge was stopped with a task
\* outstanding, and the clock has since passed the target of the next
\* ordinal with the badge list as the session left it
C15_Witness ==
    /\ ~bot.isActive
    /\ BotDid(botCall, "elapse")
    /\ timers = {}
    /\ Len(bot.badgesThisSession) = 1
    /\ now > TargetOf(bot, OrdinalOf(Head(bot.badgesThisSession)) + 1)

\* C16: starting what already runs is a no-op: startSession on an active
\* session changes no state, and startBadgeClock reached while
\* badgeClockRunning is true schedules no second task, the anchor, the
\* badge list and the outstanding task's target staying as they are.
C16_StartIsIdempotent ==
    [][/\ Cardinality(timers') <= 1
       /\ ((BotDid(botCall', "startSession")
             \/ BotDid(botCall', "startSessionConfigured")) /\ bot.isActive) =>
            /\ bot' = bot
            /\ timers' = timers
            /\ botShown' = <<>>
       /\ (BotDid(botCall', "startSessionConfigured") /\ ~bot.isActive
            /\ botCall'.mins > 0) =>
            /\ bot'.badgeClockRunning
            /\ bot'.sessionStartTime = now
            /\ \A task \in timers' : task.k = 1 /\ AimsAfter(bot', task, now)]_vars

\* C16 witness: startSession was called on a session that had earned a
\* badge and had its next task outstanding
C16_Witness ==
    /\ BotDid(botCall, "startSession")
    /\ botCall.wasActive
    /\ botCall.wasRunning
    /\ botCall.hadTask
    /\ bot.isActive
    /\ Len(bot.badgesThisSession) >= 1
    /\ \E task \in timers : task.k >= 2

\* exactly one task is outstanding and it aims, under bot b, at the first
\* multiple of the interval after time t
OneTaskAimedAfter(b, tasks, t) ==
    /\ Cardinality(tasks) = 1
    /\ \A task \in tasks : AimsAfter(b, task, t) /\ b.badgeTimeout = task.id

\* C17: setBadgeIntervalMinutes(m) with m > 0 during an active session
\* cancels the outstanding task and schedules exactly one new task, with
\* k = floor((now - startTime) / newIntervalMs) + 1 at startTime +
\* k * newIntervalMs from the same anchor; m <= 0 changes neither the
\* interval nor the schedule; with no session active the interval is
\* stored and nothing is scheduled.
C17_IntervalChangeRestarts ==
    [][BotDid(botCall', "setBadgeIntervalMinutes") =>
        LET m == botCall'.mins
        IN  IF m <= 0
            THEN bot' = bot /\ timers' = timers
            ELSE IF ~bot.isActive
            THEN /\ bot' = [bot EXCEPT !.badgeIntervalMinutes = m]
                 /\ timers' = timers
            ELSE /\ bot'.badgeIntervalMinutes = m
                 /\ bot'.sessionStartTime = bot.sessionStartTime
                 /\ bot'.badgesThisSession = bot.badgesThisSession
                 /\ bot'.isActive /\ bot'.badgeClockRunning
                 /\ OneTaskAimedAfter(bot', timers', now)
                 /\ \A old \in timers :
                        old.nextAt # TargetOf(bot', old.k) => old \notin timers']_vars

\* C17 witness: a session on the one-minute interval, 65 s old and with the
\* badge of ordinal 1, is switched to half a minute: ordinal 3 of the new
\* interval is scheduled at anchor + 90000
C17_Witness ==
    /\ BotDid(botCall, "setBadgeIntervalMinutes")
    /\ botCall.mins = 5
    /\ botCall.wasActive /\ botCall.hadTask
    /\ now = bot.sessionStartTime + 65000
    /\ Len(bot.badgesThisSession) = 1
    /\ Head(bot.badgesThisSession).label.minutes = 10
    /\ \E task \in timers :
           task.k = 3 /\ task.nextAt = bot.sessionStartTime + 90000

\* a start command has been handled
Started(c) == BotDid(c, "startSession") \/ BotDid(c, "startSessionConfigured")

\* C18: stopSession followed at once by startSession gives a fresh
\* schedule: the anchor is the new start time, the badge list is empty,
\* the first tick has ordinal 1 and is due one interval after the new
\* start, and no task of the previous session is left to fire.
C18_RestartIsFresh ==
    [][(Started(botCall') /\ botCall'.afterStop) =>
        /\ bot'.isActive
        /\ bot'.sessionStartTime = now
        /\ bot'.badgesThisSession = <<>>
        /\ OneTaskAimedAfter(bot', timers', now)
        /\ \A task \in timers' :
               /\ task.k = 1
               /\ task.nextAt = now + IntervalOf(bot')
               /\ task.dueAt = task.nextAt]_vars

\* C18 witness: a session was stopped and started again in the same
\* instant, more than a minute into the run, and ordinal 1 of the new
\* session is outstanding
C18_Witness ==
    /\ BotDid(botCall, "startSession")
    /\ botCall.afterStop
    /\ ~botCall.wasActive
    /\ bot.isActive
    /\ now > BotEpoch + 60000
    /\ bot.sessionStartTime = now
    /\ \E task \in timers : task.k = 1

\* C19: stopping what does not run is a no-op and not an error:
\* stopSession with no active session changes no field, shows no session
\* summary and cancels nothing, and stopBadgeClock with no task
\* outstanding, as the start that reads the configured interval calls
\* it, leaves the clock to be started as usual.
C19_StopIsIdempotent ==
    [][/\ (BotDid(botCall', "stopSession") /\ ~bot.isActive) =>
            /\ bot' = bot
            /\ timers' = timers
            /\ botShown' = <<>>
       /\ (BotDid(botCall', "stopSession") /\ bot.isActive) =>
            /\ Len(botShown') = 1
            /\ botShown'[1].kind = "session-summary"
       /\ (BotDid(botCall', "startSessionConfigured") /\ ~bot.isActive
            /\ timers = {} /\ botCall'.mins > 0) =>
            /\ bot'.badgeClockRunning
            /\ bot'.badgeIntervalMinutes = botCall'.mins
            /\ Cardinality(timers') = 1]_vars

\* C19 witness: stopSession was called a second time on a stopped session
\* that keeps its badge and its anchor
C19_Witness ==
    /\ BotDid(botCall, "stopSession")
    /\ ~botCall.wasActive
    /\ botCall.afterStop
    /\ ~bot.isActive
    /\ bot.sessionStartTime # 0
    /\ Len(bot.badgesThisSession) >= 1
    /\ botShown = <<>>

\* a step of startSession, stopSession or setBadgeIntervalMinutes that did
\* anything at all
SessionStep ==
    /\ botCall'.op \in {"startSession", "stopSession", "setBadgeIntervalMinutes"}
    /\ <<bot, timers, botCall>>' # <<bot, timers, botCall>>

\* C21: review windows are not coupled to the session lifecycle: a step of
\* startSession, stopSession or setBadgeIntervalMinutes leaves every
\* PendingReview entry and the payload cache as they were, and whether or
\* not a session is running, isInReviewWindow answers true exactly while the
\* document has an entry whose deadline is still ahead.
C21_ReviewsApartFromSession ==
    [][/\ SessionStep =>
              /\ pending' = pending
              /\ lastBulkInsert' = lastBulkInsert
       /\ lastCall'.op = "isInReviewWindow" /\ lastCall' # lastCall =>
              lastCall'.result =
                  (/\ MapHas(pending, lastCall'.uri)
                   /\ now < MapGet(pending, lastCall'.uri).deadline)]_vars

\* a session is stopped while a review window is open
C21_Witness ==
    /\ botCall.op = "stopSession"
    /\ botCall.wasActive
    /\ lastBulkInsert # undefined
    /\ \E d \in Docs : isInReviewWindow(d)

\* the user's click has reached handleSubmitSummary with a summary
SubmitStep ==
    buildCall'.op = "submit" /\ build'.submitted # build.submitted

\* a pending evaluation has ended and handleSubmitSummary has gone on
EvaluatedStep ==
    buildCall'.op = "evaluated" /\ build'.evaluations # build.evaluations

\* the review-result messages among the messages a handler posted
ReviewResults(posted) ==
    SelectSeq(posted, LAMBDA msg : msg.type = "review-result")

\* the evaluation that has just ended answered its submitter with exactly
\* one result of the evaluator's outcome, asked nothing again, cleared the
\* loading state and, after a failure, enabled the submit control
OneResultDelivered ==
    LET results == ReviewResults(buildCall'.posted)
    IN  /\ ~buildCall'.raised
        /\ build.panel = buildCall'.from
        /\ Len(results) = 1
        /\ results[1].ok = buildCall'.ok
        /\ buildCall'.ok => results[1].text \in EvaluatorTexts
        /\ build'.evaluations \subseteq build.evaluations
        /\ ~build'.view.overlay
        /\ ~buildCall'.ok => ~build'.view.submitDisabled

C29_LateResultDropped ==
    [][(EvaluatedStep /\ build.panel # buildCall'.from) =>
           /\ ~buildCall'.raised
           /\ buildCall'.posted = <<>>]_vars

\* C30: for every interleaving of the asynchronous startDetection with
\* stopDetection, at most one detection interval timer exists at any time
\* and no interval timer exists while isDetecting is false.
C30_OneTimerOnlyWhileDetecting ==
    /\ Cardinality(intervals) <= 1
    /\ ~detector.isDetecting => intervals = {}

\* C27: in every reachable state at most one badge timer task is
\* outstanding, a task is outstanding if and only if badgeClockRunning is
\* true, and badgeClockRunning implies that the session is active, whatever
\* the interleaving of startSession and its await with stopSession,
\* setBadgeIntervalMinutes and the timer.
C27_OneTaskIffRunning ==
    /\ Cardinality(timers) <= 1
    /\ timers # {} <=> bot.badgeClockRunning
    /\ bot.badgeClockRunning => bot.isActive

\* a startSession() resumed after the interval was set during its await
\* finds the clock running and leaves the one task there is
C27_Witness ==
    /\ botCall.op = "startSession:resumed"
    /\ botCall.wasActive
    /\ botCall.wasRunning
    /\ botCall.hadTask
    /\ Cardinality(timers) = 1

\* newest first, every badge carries a higher ordinal than the one before
StrictlyRisingOrdinals(badges) ==
    \A i \in 1..(Len(badges) - 1) :
        OrdinalOf(badges[i]) > OrdinalOf(badges[i + 1])

\* the same for every badge whose interval is not larger than that of the
\* badge before it
RisingUnlessEnlarged(badges) ==
    \A i \in 1..(Len(badges) - 1) :
        badges[i].label.minutes <= badges[i + 1].label.minutes =>
            OrdinalOf(badges[i]) > OrdinalOf(badges[i + 1])

\* as many badges as timer callbacks run since the session started, up to
\* the cap
BadgePerTick ==
    Len(bot.badgesThisSession) = Min(botCall.ticks, BadgeCap)

\* C28 as stated: within one session the ordinals of the badges awarded are
\* strictly increasing and the number of badges equals the number of ticks
\* fired since the session started (capped at 200), also when
\* setBadgeIntervalMinutes changes the interval to a larger or smaller value
\* in the middle of the session.
C28_RisingOrdinalsBadgePerTick ==
    /\ StrictlyRisingOrdinals(bot.badgesThisSession)
    /\ BadgePerTick

\* C28 amended: the ordinals are strictly increasing except across a change
\* of the interval to a larger value; the number of badges equals the number
\* of ticks, capped at 200, in every case.
C28_RisingUnlessEnlargedBadgePerTick ==
    /\ RisingUnlessEnlarged(bot.badgesThisSession)
    /\ BadgePerTick

\* the list is full, a tick more has fired, and the interval was made both
\* smaller and larger between badges still on the list
C28_Witness ==
    /\ botCall.ticks > BadgeCap
    /\ Len(bot.badgesThisSession) = BadgeCap
    /\ \E i \in 1..(BadgeCap - 1) :
           bot.badgesThisSession[i].label.minutes
               < bot.badgesThisSession[i + 1].label.minutes
    /\ \E i \in 1..(BadgeCap - 1) :
           bot.badgesThisSession[i].label.minutes
               > bot.badgesThisSession[i + 1].label.minutes

\* a submit-summary message has been handled
SummarySubmitted ==
    /\ lastCall'.op = "submit-summary"
    /\ summaryPanel # undefined
    /\ <<lastCall, lastBulkInsertSummary, summaryPanel, notifications>>'
           # <<lastCall, lastBulkInsertSummary, summaryPanel, notifications>>

\* C23: a summary submitted for an insertion whose cached payload has been
\* overwritten by a newer bulk insertion on another document is surfaced as
\* a "no code to evaluate" failure and is not recorded; no summary is ever
\* recorded against a document other than the one of the payload held.
C23_StaleSubmissionRefused ==
    [][(SummarySubmitted /\ Len(Trim(lastCall'.text)) > 0) =>
           IF lastBulkInsert.uri # summaryPanel.uri
           THEN /\ lastBulkInsertSummary' = lastBulkInsertSummary
                /\ \E i \in DOMAIN notifications' :
                       notifications'[i].kind = "no-code-to-evaluate"
           ELSE lastBulkInsertSummary'.uri = lastBulkInsert.uri]_vars

\* a bulk insertion has been handled
BulkHandled == HandledEdit(lastCall') /\ BulkInsertion(lastCall'.event)

C25_SummaryLastWins ==
    [][SummarySubmitted =>
        LET trimmed == Trim(lastCall'.text)
        IN  IF Len(trimmed) > 0
            THEN /\ lastBulkInsertSummary'.summaryText = trimmed
                 /\ lastBulkInsertSummary'.timestamp = now
                 /\ getLastBulkInsertSummaryText' = trimmed
            ELSE /\ lastBulkInsertSummary' = lastBulkInsertSummary
                 /\ summaryPanel' = summaryPanel]_vars

\* a second summary, accepted later than the first, has replaced it
C25_Witness ==
    /\ lastCall.op = "submit-summary"
    /\ lastCall.hadSummary
    /\ Len(Trim(lastCall.text)) > 0
    /\ Trim(lastCall.text) # lastCall.text
    /\ getLastBulkInsertSummaryText = Trim(lastCall.text)
    /\ lastBulkInsertSummary.timestamp = now
    /\ now > 0

\* C26: between two consecutive bulk insertions on the same document at
\* most one early-edit warning is shown for that document: an edit is
\* answered with a warning only if none was shown for its document since
\* the document's latest bulk insertion, and then with exactly one.
C26_OneWarningPerWindow ==
    [][(HandledEdit(lastCall') /\ ShowsEarlyEdit(notifications')) =>
        LET d == lastCall'.uri
        IN  /\ bulkLog[d] # undefined
            /\ ~bulkLog[d].warnedSince
            /\ Len(notifications') = 1]_vars

\* typing goes unanswered on a document warned about since its latest bulk
\* insertion, before the time that insertion's window would have ended
C26_Witness ==
    /\ HandledEdit(lastCall)
    /\ IncrementalTyping(lastCall.event)
    /\ bulkLog[lastCall.uri] # undefined
    /\ bulkLog[lastCall.uri].warnedSince
    /\ now < bulkLog[lastCall.uri].at + ClampLowMs
    /\ ~lastCall.hadEntry
    /\ notifications = <<>>

====
